---- MODULE Spec2Model ----
(***************************************************************************)
(* Model of src/app/page.tsx: the catalog filter of MovieApp, the Modal   *)
(* overlay and the HlsPlayer effect (attach on src, release in cleanup).   *)
(* Strings are sequences of UTF-16 code units, as in JavaScript.           *)
(***************************************************************************)
EXTENDS Integers, Sequences, FiniteSets, TLC

VARIABLES movies, query, genre, current, filtered, overlayOpen,
          propSrc, hls, videoRef, hlsSessions,
          nCreated, warnCount, nPlay, nEvents, lastEvent, pc,
          native, hlsSupported

vars == <<movies, query, genre, current, filtered, overlayOpen,
          propSrc, hls, videoRef, hlsSessions,
          nCreated, warnCount, nPlay, nEvents, lastEvent, pc,
          native, hlsSupported>>

(* ---------------------------- bounds ---------------------------------- *)
MaxQueryLen == 3
MaxCatalog == 2
MaxEvents == 4

(* ---------------------------- strings --------------------------------- *)
\* String.prototype.toLowerCase on one code unit (ASCII and Latin-1 letters)
LowerChar(c) ==
  IF (c >= 65 /\ c <= 90) \/ (c >= 192 /\ c <= 222 /\ c # 215) THEN c + 32 ELSE c

toLowerCase(s) == [i \in 1..Len(s) |-> LowerChar(s[i])]

\* code units String.prototype.trim removes (WhiteSpace and LineTerminator)
WhiteSpace == {9, 10, 11, 12, 13, 32, 160, 5760, 8232, 8233, 8239, 8287, 12288, 65279}
              \cup (8192..8202)

RECURSIVE trimStart(_)
trimStart(s) ==
  IF s # <<>> /\ Head(s) \in WhiteSpace THEN trimStart(Tail(s)) ELSE s

RECURSIVE trimEnd(_)
trimEnd(s) ==
  IF s # <<>> /\ s[Len(s)] \in WhiteSpace THEN trimEnd(SubSeq(s, 1, Len(s) - 1)) ELSE s

trim(s) == trimEnd(trimStart(s))

\* String.prototype.includes
includes(s, q) ==
  \E i \in 0..(Len(s) - Len(q)) : SubSeq(s, i + 1, i + Len(q)) = q

\* String(n) for a non-negative integer: its decimal digits
RECURSIVE String(_)
String(n) ==
  IF n < 10 THEN <<48 + n>> ELSE String(n \div 10) \o <<48 + (n % 10)>>

\* Array.prototype.join(" ")
RECURSIVE join(_)
join(parts) ==
  IF parts = <<>> THEN <<>>
  ELSE IF Len(parts) = 1 THEN parts[1]
  ELSE parts[1] \o <<32>> \o join(Tail(parts))

\* Array.prototype.includes on an array of strings (strict equality)
arrayIncludes(arr, x) == \E i \in 1..Len(arr) : arr[i] = x

(* ---------------------------- catalog --------------------------------- *)
\* m.genres || []  (genres?: string[] -- a record without the field has none)
GenresOrEmpty(m) == IF "genres" \in DOMAIN m THEN m.genres ELSE <<>>

\* "Planeta Azul (Dominio público)", 1934, ["Aventura", "Clásico"]
\* "Historias de Iquitos (CC)", 2020, ["Drama", "Latinoamericana"]
SAMPLE_MOVIES == <<
  [id |-> 1,
   title |-> <<80, 108, 97, 110, 101, 116, 97, 32, 65, 122, 117, 108, 32, 40, 68,
               111, 109, 105, 110, 105, 111, 32, 112, 250, 98, 108, 105, 99, 111, 41>>,
   year |-> 1934,
   genres |-> << <<65, 118, 101, 110, 116, 117, 114, 97>>,
                 <<67, 108, 225, 115, 105, 99, 111>> >>,
   hlsUrl |-> "x36xhzz.m3u8"],
  [id |-> 2,
   title |-> <<72, 105, 115, 116, 111, 114, 105, 97, 115, 32, 100, 101, 32, 73, 113,
               117, 105, 116, 111, 115, 32, 40, 67, 67, 41>>,
   year |-> 2020,
   genres |-> << <<68, 114, 97, 109, 97>>,
                 <<76, 97, 116, 105, 110, 111, 97, 109, 101, 114, 105, 99, 97, 110, 97>> >>,
   hlsUrl |-> "20190215.m3u8"] >>

(* ---------------------------- filter ---------------------------------- *)
\* [m.title, String(m.year), ...(m.genres || [])].join(" ").toLowerCase()
Haystack(m) == toLowerCase(join(<<m.title, String(m.year)>> \o GenresOrEmpty(m)))

\* const q = query.toLowerCase().trim()
NormQuery(qry) == trim(toLowerCase(qry))

matchesQuery(m, qry) ==
  LET q == NormQuery(qry) IN q = <<>> \/ includes(Haystack(m), q)

\* a genre test that lets records without a genre list through
matchesGenreNoDefault(m, g) ==
  g = <<>> \/ ~("genres" \in DOMAIN m) \/ arrayIncludes(m.genres, g)

\* a record test that joins the two conditions with ||
MovieMatchesEither(m, qry, g) ==
  LET q == trim(toLowerCase(qry))
  IN (q = <<>> \/ includes(toLowerCase(join(<<m.title, String(m.year)>>
                                             \o GenresOrEmpty(m))), q))
     \/ (g = <<>> \/ arrayIncludes(GenresOrEmpty(m), g))

matchesGenre(m, g) == g = <<>> \/ arrayIncludes(GenresOrEmpty(m), g)

\* return matchesQuery && matchesGenre
MovieMatches(m, qry, g) == matchesQuery(m, qry) /\ matchesGenre(m, g)

\* a filter that prepends each match to its result (newest match first)
FilterReversed(ms, qry, g) ==
  LET Test(m) == MovieMatches(m, qry, g)
      sel == SelectSeq(ms, Test)
  IN [i \in 1..Len(sel) |-> sel[Len(sel) + 1 - i]]

\* movies.filter((m) => ...): the matching elements, in catalog order
Filter(ms, qry, g) ==
  LET Test(m) == MovieMatches(m, qry, g) IN SelectSeq(ms, Test)

\* Filters: Array.from(new Set(SAMPLE_MOVIES.flatMap(m => m.genres || [])))
\* (the order of the <option>s does not matter to the model)
GenreOptions ==
  {<<>>} \cup UNION {{GenresOrEmpty(SAMPLE_MOVIES[i])[j] :
                        j \in 1..Len(GenresOrEmpty(SAMPLE_MOVIES[i]))} :
                     i \in 1..Len(SAMPLE_MOVIES)}

(* ---------------------------- HlsPlayer ------------------------------- *)
\* current: 0 is null, i > 0 is the record movies[i]
NoMovie == 0
\* hls: 0 is null, n > 0 is the n-th Hls instance created
NoHls == 0
\* propSrc and videoRef are <<>> while HlsPlayer is not mounted;
\* propSrc = <<s>> is the src prop, videoRef = <<[src |-> s]>> the <video> element

\* a cleanup that releases nothing
DestroyedByNothing(h, sessions) == sessions

\* cleanup returned by the effect: if (hls) hls.destroy()
DestroyedBy(h, sessions) ==
  IF h # NoHls THEN {s \in sessions : s.id # h} ELSE sessions

Cleanup ==
  /\ pc = "cleanup"
  /\ hlsSessions' = DestroyedBy(hls, hlsSessions)
  /\ hls' = NoHls
  /\ pc' = IF propSrc = <<>> THEN "idle" ELSE "setup"
  /\ UNCHANGED <<movies, query, genre, current, filtered, overlayOpen, propSrc,
                 videoRef, nCreated, warnCount, nPlay, nEvents, lastEvent,
                 native, hlsSupported>>

\* an effect body that asks Hls.isSupported() before canPlayType
EffectBranchHlsFirst(video, src) ==
  IF video = <<>> \/ src = "" THEN "return"
  ELSE IF hlsSupported THEN "hls"
  ELSE IF native THEN "native"
  ELSE "warn"

\* an effect body that creates the Hls session without asking Hls.isSupported()
EffectBranchUnchecked(video, src) ==
  IF video = <<>> \/ src = "" THEN "return"
  ELSE IF native THEN "native"
  ELSE "hls"

\* which branch of the effect body runs for (video, src)
EffectBranch(video, src) ==
  IF video = <<>> \/ src = "" THEN "return"
  ELSE IF native THEN "native"
  ELSE IF hlsSupported THEN "hls"
  ELSE "warn"

\* the body of useEffect(() => {...}, [src])
Setup ==
  /\ pc = "setup"
  /\ LET src == propSrc[1]
         branch == EffectBranch(videoRef, src)
     IN /\ videoRef' = IF branch = "native" THEN <<[src |-> src]>> ELSE videoRef
        /\ nCreated' = IF branch = "hls" THEN nCreated + 1 ELSE nCreated
        /\ hls' = IF branch = "hls" THEN nCreated + 1 ELSE NoHls
        /\ hlsSessions' = IF branch = "hls"
                          THEN hlsSessions \cup {[id |-> nCreated + 1, src |-> src]}
                          ELSE hlsSessions
        /\ warnCount' = IF branch = "warn" THEN warnCount + 1 ELSE warnCount
  /\ pc' = "idle"
  /\ UNCHANGED <<movies, query, genre, current, filtered, overlayOpen, propSrc,
                 nPlay, nEvents, lastEvent, native, hlsSupported>>

\* React commit of HlsPlayer for the new element tree: target is <<>> when the
\* tree holds no HlsPlayer, <<s>> when it holds <HlsPlayer src={s}>
Commit(target) ==
  /\ propSrc' = target
  /\ videoRef' = IF target = <<>> THEN <<>>
                 ELSE IF propSrc = <<>> THEN <<[src |-> ""]>>
                 ELSE videoRef
  /\ pc' = IF target = propSrc THEN "idle"
           ELSE IF propSrc = <<>> THEN "setup"
           ELSE "cleanup"

(* ---------------------------- MovieApp -------------------------------- *)
\* a Modal without the early return
ModalRendersAlways(open) == TRUE

\* Modal: if (!open) return null
ModalRenders(open) == open

\* queries typed into the search box: "", "iquitos", "xyz", " AZUL "
AppQueries == { <<>>,
                <<105, 113, 117, 105, 116, 111, 115>>,
                <<120, 121, 122>>,
                <<32, 65, 90, 85, 76, 32>> }

\* a tree that shows the player only while the selected movie is listed
PlayerTargetIfListed ==
  IF current # NoMovie
     /\ \E k \in 1..Len(Filter(movies, query, genre)) :
           Filter(movies, query, genre)[k] = movies[current]
  THEN <<movies[current].hlsUrl>> ELSE <<>>

\* the element tree MovieApp returns for the current state
PlayerTarget ==
  IF ModalRenders(current # NoMovie) /\ current # NoMovie
  THEN <<movies[current].hlsUrl>> ELSE <<>>

Render ==
  /\ pc = "render"
  /\ filtered' = Filter(movies, query, genre)
  /\ overlayOpen' = ModalRenders(current # NoMovie)
  /\ Commit(PlayerTarget)
  /\ UNCHANGED <<movies, query, genre, current, hls, hlsSessions, nCreated,
                 warnCount, nPlay, nEvents, lastEvent, native, hlsSupported>>

\* onChange={(e) => setQuery(e.target.value)}
SetQuery(v) ==
  /\ pc = "idle" /\ nEvents < MaxEvents
  /\ v # query
  /\ query' = v
  /\ lastEvent' = "query" /\ nEvents' = nEvents + 1 /\ pc' = "render"
  /\ UNCHANGED <<movies, genre, current, filtered, overlayOpen, propSrc, hls,
                 videoRef, hlsSessions, nCreated, warnCount, nPlay,
                 native, hlsSupported>>

\* onChange={(e) => setGenre(e.target.value)}
SetGenre(g) ==
  /\ pc = "idle" /\ nEvents < MaxEvents
  /\ g # genre
  /\ genre' = g
  /\ lastEvent' = "genre" /\ nEvents' = nEvents + 1 /\ pc' = "render"
  /\ UNCHANGED <<movies, query, current, filtered, overlayOpen, propSrc, hls,
                 videoRef, hlsSessions, nCreated, warnCount, nPlay,
                 native, hlsSupported>>

\* MovieCard of movies[i]: onClick={() => onPlay(movie)}, onPlay = setCurrent
Play(i) ==
  /\ pc = "idle" /\ nEvents < MaxEvents
  /\ \E k \in 1..Len(filtered) : filtered[k] = movies[i]
  /\ i # current
  /\ current' = i
  /\ nPlay' = nPlay + 1
  /\ lastEvent' = "play" /\ nEvents' = nEvents + 1 /\ pc' = "render"
  /\ UNCHANGED <<movies, query, genre, filtered, overlayOpen, propSrc, hls,
                 videoRef, hlsSessions, nCreated, warnCount,
                 native, hlsSupported>>

\* Modal backdrop or close button: onClose={() => setCurrent(null)}
Close ==
  /\ pc = "idle" /\ nEvents < MaxEvents
  /\ overlayOpen
  /\ current' = NoMovie
  /\ lastEvent' = "close" /\ nEvents' = nEvents + 1 /\ pc' = "render"
  /\ UNCHANGED <<movies, query, genre, filtered, overlayOpen, propSrc, hls,
                 videoRef, hlsSessions, nCreated, warnCount, nPlay,
                 native, hlsSupported>>

PlayerInit ==
  /\ propSrc = <<>> /\ hls = NoHls /\ videoRef = <<>> /\ hlsSessions = {}
  /\ nCreated = 0 /\ warnCount = 0 /\ nPlay = 0 /\ nEvents = 0
  /\ lastEvent = "mount" /\ pc = "idle"
  /\ native \in BOOLEAN /\ hlsSupported \in BOOLEAN

Init ==
  /\ movies = SAMPLE_MOVIES
  /\ query = <<>> /\ genre = <<>> /\ current = NoMovie
  /\ filtered = Filter(SAMPLE_MOVIES, <<>>, <<>>)
  /\ overlayOpen = FALSE
  /\ PlayerInit

Next ==
  \/ \E v \in AppQueries : SetQuery(v)
  \/ \E g \in GenreOptions : SetGenre(g)
  \/ \E i \in 1..Len(movies) : Play(i)
  \/ Close
  \/ Render
  \/ Cleanup
  \/ Setup

Spec == Init /\ [][Next]_vars

(* ------------------- HlsPlayer under an arbitrary parent -------------- *)
\* values of the src prop: HlsPlayer({ src }: { src: string })
SrcValues == {"", "a.m3u8", "b.m3u8"}

\* the parent mounts HlsPlayer, re-renders it with another src, or unmounts it
ParentRender(target) ==
  /\ pc = "idle" /\ nEvents < MaxEvents
  /\ target # propSrc
  /\ Commit(target)
  /\ lastEvent' = "props" /\ nEvents' = nEvents + 1
  /\ UNCHANGED <<movies, query, genre, current, filtered, overlayOpen, hls,
                 hlsSessions, nCreated, warnCount, nPlay, native, hlsSupported>>

PlayerNext ==
  \/ \E target \in {<<>>} \cup {<<s>> : s \in SrcValues} : ParentRender(target)
  \/ Cleanup
  \/ Setup

PlayerSpec == Init /\ [][PlayerNext]_vars

(* ------------------- the filter over arbitrary catalogs --------------- *)
\* "Ab" 12 ["Ba"];  "b A" 1 (no genres);  "a" 21 ["Ab", "b"]
MoviePool == {
  [id |-> 1, title |-> <<65, 98>>, year |-> 12,
   genres |-> << <<66, 97>> >>, hlsUrl |-> "a.m3u8"],
  [id |-> 2, title |-> <<98, 32, 65>>, year |-> 1, hlsUrl |-> "b.m3u8"],
  [id |-> 3, title |-> <<97>>, year |-> 21,
   genres |-> << <<65, 98>>, <<98>> >>, hlsUrl |-> ""] }

\* catalogs: sequences of at most MaxCatalog records with distinct ids
Catalogs ==
  UNION {{c \in [1..n -> MoviePool] :
            \A i, j \in 1..n : i # j => c[i].id # c[j].id} : n \in 0..MaxCatalog}

\* code units of typed queries: " ", "1", "A", "b"
QueryChars == {32, 49, 65, 98}
Queries == UNION {[1..n -> QueryChars] : n \in 0..MaxQueryLen}

\* genre constraints: "", "Ab", "ab", "A", "b", "Ba"
FilterGenres == {<<>>, <<65, 98>>, <<97, 98>>, <<65>>, <<98>>, <<66, 97>>}

FilterInit ==
  /\ movies \in Catalogs
  /\ query = <<>> /\ genre = <<>> /\ current = NoMovie
  /\ filtered = Filter(movies, <<>>, <<>>)
  /\ overlayOpen = FALSE
  /\ PlayerInit

\* one keystroke in the search box (a code unit appended, or the last one
\* deleted): setQuery(v) and the re-render that derives the filtered list
TypeQuery(v) ==
  /\ \/ Len(query) > 0 /\ v = SubSeq(query, 1, Len(query) - 1)
     \/ Len(v) > 0 /\ query = SubSeq(v, 1, Len(v) - 1)
  /\ query' = v
  /\ filtered' = Filter(movies, v, genre)
  /\ UNCHANGED <<movies, genre, current, overlayOpen, propSrc, hls, videoRef,
                 hlsSessions, nCreated, warnCount, nPlay, nEvents, lastEvent, pc,
                 native, hlsSupported>>

\* setGenre(g) and the re-render that derives the filtered list
ChooseGenre(g) ==
  /\ g # genre
  /\ genre' = g
  /\ filtered' = Filter(movies, query, g)
  /\ UNCHANGED <<movies, query, current, overlayOpen, propSrc, hls, videoRef,
                 hlsSessions, nCreated, warnCount, nPlay, nEvents, lastEvent, pc,
                 native, hlsSupported>>

FilterNext ==
  \/ \E v \in Queries : TypeQuery(v)
  \/ \E g \in FilterGenres : ChooseGenre(g)

FilterSpec == FilterInit /\ [][FilterNext]_vars

(* ============================ properties ============================== *)
Mounted == propSrc # <<>>
\* the source assigned to the mounted <video> element ("" when none)
VideoSrc == IF videoRef = <<>> THEN "" ELSE videoRef[1].src
Degraded == ~native /\ ~hlsSupported

\* sub is obtained from full by deleting elements, order kept
RECURSIVE IsSubsequence(_, _)
IsSubsequence(sub, full) ==
  IF sub = <<>> THEN TRUE
  ELSE IF full = <<>> THEN FALSE
  ELSE IF Head(sub) = Head(full) THEN IsSubsequence(Tail(sub), Tail(full))
  ELSE IsSubsequence(sub, Tail(full))

\* the trimmed, lower-cased query as the claims read it
TrimmedQuery == trim(toLowerCase(query))

\* q occurs inside one field of m: the title, the year text or one genre tag
SomeFieldContains(m, q) ==
  \/ includes(toLowerCase(m.title), q)
  \/ includes(toLowerCase(String(m.year)), q)
  \/ \E j \in 1..Len(GenresOrEmpty(m)) : includes(toLowerCase(GenresOrEmpty(m)[j]), q)

\* q occurs inside "title year tag1 tag2 ..." (fields joined by one space)
JoinedTextContains(m, q) ==
  includes(toLowerCase(join(<<m.title, String(m.year)>> \o GenresOrEmpty(m))), q)

\* C1: whatever the client capability, at most one streaming session is
\* attached to the video element in every reachable state, also in the
\* middle of the switch from movie A to movie B.
C1_AtMostOneSession == Cardinality(hlsSessions) <= 1

\* C1 witness: A was played, then B without a close, on the external-library
\* path; B's session is the second one created and the only one alive.
C1_Witness ==
  /\ pc = "idle" /\ nEvents = 2 /\ nPlay = 2 /\ nCreated = 2
  /\ hlsSessions = {[id |-> 2, src |-> movies[current].hlsUrl]}

\* C2: once a close has been processed, current is null, the overlay is
\* closed, no streaming session is alive and no video element (hence no
\* attached source) is left.
C2_CloseReleases ==
  (pc = "idle" /\ current = NoMovie) =>
     /\ ~overlayOpen
     /\ hlsSessions = {} /\ hls = NoHls
     /\ ~Mounted /\ videoRef = <<>> /\ VideoSrc = ""

\* C2 witness: a movie was played on the external-library path and the
\* overlay was then closed.
C2_Witness ==
  /\ pc = "idle" /\ lastEvent = "close" /\ current = NoMovie
  /\ nCreated >= 1 /\ ~native

\* C3: after every processed event the overlay is open exactly when current
\* is not null, and while the overlay is closed there is no playback surface.
C3_OpenIffCurrent ==
  /\ pc = "idle" => (overlayOpen <=> current # NoMovie)
  /\ ~overlayOpen => (~Mounted /\ videoRef = <<>>)

\* C3 witness: the overlay is open after a play click followed by typing and
\* a genre choice.
C3_Witness ==
  /\ pc = "idle" /\ overlayOpen /\ current # NoMovie /\ Mounted
  /\ lastEvent = "genre" /\ nEvents >= 3 /\ query # <<>>

\* C4 as stated: with an empty genre the result is a subsequence of the
\* catalog and each returned record has ONE FIELD (title, year text or a
\* genre tag) containing the trimmed query case-insensitively.
C4_Original ==
  genre = <<>> =>
    /\ IsSubsequence(filtered, movies)
    /\ \A k \in 1..Len(filtered) :
         TrimmedQuery = <<>> \/ SomeFieldContains(filtered[k], TrimmedQuery)

\* C4 amended: with an empty genre the result is a subsequence of the
\* catalog and for each returned record the text "title year tags", joined
\* by single spaces, contains the trimmed query case-insensitively.
C4_JoinedTextMatch ==
  genre = <<>> =>
    /\ IsSubsequence(filtered, movies)
    /\ \A k \in 1..Len(filtered) :
         TrimmedQuery = <<>> \/ JoinedTextContains(filtered[k], TrimmedQuery)

\* C4 witness: a non-empty query keeps a record that matches only across a
\* field boundary and drops another record of the catalog.
C4_Witness ==
  /\ genre = <<>> /\ TrimmedQuery # <<>>
  /\ Len(filtered) >= 1 /\ Len(filtered) < Len(movies)
  /\ ~SomeFieldContains(filtered[1], TrimmedQuery)

\* C5: with a non-empty genre g every returned record has a genre list with
\* g as an exact element; a record without a list is never returned.
C5_GenreExact ==
  genre # <<>> =>
    \A k \in 1..Len(filtered) :
      /\ "genres" \in DOMAIN filtered[k]
      /\ \E j \in 1..Len(filtered[k].genres) : filtered[k].genres[j] = genre

\* C5 witness: a non-empty genre returns a record while the catalog also
\* holds a record without a genre list that the query alone would keep.
C5_Witness ==
  /\ genre # <<>> /\ Len(filtered) >= 1
  /\ \E i \in 1..Len(movies) :
       /\ ~("genres" \in DOMAIN movies[i])
       /\ matchesQuery(movies[i], query)

\* C6: filtering the filtered list again with the same query and genre gives
\* the same records in the same order.
C6_Idempotent == Filter(filtered, query, genre) = filtered

\* C6 witness: two records pass a filter that is not the match-all filter.
C6_Witness ==
  /\ Len(filtered) >= 2
  /\ TrimmedQuery # <<>> \/ genre # <<>>

\* C7 as stated: once a change of src (also to "") or an unmount has been
\* processed, nothing of a previous URL is attached: every live session and
\* the source of the video element belong to the present src, and with an
\* empty src or no player nothing is attached at all.
C7_NothingStaleAttached ==
  pc = "idle" =>
    /\ \A s \in hlsSessions : Mounted /\ s.src = propSrc[1]
    /\ VideoSrc # "" => (Mounted /\ VideoSrc = propSrc[1])

\* C8: no session is ever created on a client with native support or on one
\* without library support; after a non-empty src has been attached a
\* session for that src exists exactly when the client lacks native support
\* and the library reports support, and with native support the src is
\* assigned to the video element.
C8_SessionIffExternalOnly ==
  /\ (native \/ ~hlsSupported) => (nCreated = 0 /\ hlsSessions = {} /\ hls = NoHls)
  /\ (pc = "idle" /\ Mounted /\ propSrc[1] # "") =>
       /\ hls # NoHls <=> (~native /\ hlsSupported)
       /\ hls # NoHls => (hls = nCreated /\ [id |-> hls, src |-> propSrc[1]] \in hlsSessions)
       /\ native => VideoSrc = propSrc[1]
       /\ ~native => VideoSrc = ""

\* C8 witness: a client with native support AND library support has had two
\* URLs attached, the second directly assigned to the video element.
C8_Witness ==
  /\ pc = "idle" /\ native /\ hlsSupported
  /\ Mounted /\ propSrc[1] # "" /\ VideoSrc = propSrc[1]
  /\ nEvents >= 2

\* C9: on a client with neither capability no session is created and no
\* source assigned; after each processed event exactly one warning per
\* selection has been logged (no retry), the overlay and the video element
\* are there while a movie is selected, and gone after the close.
C9_DegradedNonFatal ==
  Degraded =>
    /\ nCreated = 0 /\ hlsSessions = {} /\ hls = NoHls /\ VideoSrc = ""
    /\ warnCount <= nPlay
    /\ pc = "idle" => warnCount = nPlay
    /\ (pc = "idle" /\ current # NoMovie) => (overlayOpen /\ videoRef # <<>>)
    /\ (pc = "idle" /\ current = NoMovie) => (~overlayOpen /\ videoRef = <<>>)

\* C9 witness: on such a client a movie was selected, then the other one,
\* then the overlay was closed.
C9_Witness ==
  /\ Degraded /\ pc = "idle" /\ lastEvent = "close"
  /\ nPlay = 2 /\ warnCount = 2 /\ nEvents = 3

\* C10: no step taken for a query or genre change alters the selection, the
\* overlay, the player or its sessions; no step taken for a play or close
\* click alters the query or the genre; no step alters the catalog.
C10_Frame ==
  [][ /\ lastEvent' \in {"query", "genre"} =>
           UNCHANGED <<current, overlayOpen, propSrc, hls, videoRef, hlsSessions>>
      /\ lastEvent' \in {"play", "close"} => UNCHANGED <<query, genre>>
      /\ movies' = movies ]_vars

\* C10 witness: the overlay is open with a live session on a movie that the
\* filter typed afterwards no longer lists.
C10_Witness ==
  /\ pc = "idle" /\ lastEvent \in {"query", "genre"}
  /\ overlayOpen /\ current # NoMovie /\ hlsSessions # {}
  /\ \A k \in 1..Len(filtered) : filtered[k] # movies[current]

====
